---- MODULE Spec2Model ----
(***************************************************************************)
(* Flight tracker: the rate-limited OpenSky client, the tracked-flight     *)
(* cache with its polling task, and the JSON-RPC dispatcher                *)
(* (src/backend/flight_data_service.py, src/backend/mcp_flight_server.py,  *)
(* src/backend/config.py).                                                 *)
(*                                                                         *)
(* Execution model.  All code runs on one thread under an asyncio event    *)
(* loop.  handle_request never suspends (every coroutine it awaits runs to *)
(* completion), and the client blocks the thread (requests, time.sleep),   *)
(* so a handler and a poll iteration are each uninterrupted.  A polling    *)
(* task made by asyncio.create_task is only queued: it runs when the event *)
(* loop next gets control, in creation order, and any number of requests   *)
(* may be handled before that.  The steps of one blocking client call are  *)
(* separate actions so that single attempts can be observed; nothing else  *)
(* is enabled while a call is in progress (cpc # "idle").                  *)
(***************************************************************************)
EXTENDS Integers, Sequences, FiniteSets, TLC

\* ------------------------------------------------------------------ Config
\* Fields of the Config dataclass.  Every field is a constructor parameter;
\* the model runs the program with a Config whose intervals and capacity are
\* small (the defaults are 10 s, 1000 flights and 300 s), MAX_RETRIES as is.
MIN_REQUEST_INTERVAL == 2
MAX_RETRIES == 3
MAX_TRACKED_FLIGHTS == 1
FLIGHT_EXPIRY_TIME == 2
\* FlightData is built from state[0] .. state[16]
FIELD_COUNT == 17
\* error_response's fixed code
ERROR_CODE == -32000

\* ------------------------------------------------------------------ bounds
\* No operation starts at or after this clock value.
MaxTime == 4
\* The same horizon where only the client is exercised: a call whose
\* MAX_RETRIES attempts all fail ends MIN_REQUEST_INTERVAL * (1 + 2) after it
\* began, and the call after it has to start.
MaxClientTime == 9
\* A request to the upstream takes 0 .. MaxLatency time units.
MaxLatency == 1
\* Polling tasks created in one run.
MaxTasks == 2
\* Rows in one upstream payload.
MaxBatch == 2

ICAOs == {"a", "b"}
\* last_contact values the upstream reports.
LastContacts == {0, 2}
Ids == {"null", "id-1"}

VARIABLES
    now,                \* time.time()
    last_request_time,  \* OpenSkyAPIClient.last_request_time
    tracked_flights,    \* FlightTracker.tracked_flights: key -> flight
    tracking_active,    \* FlightTracker.tracking_active
    tracking_task,      \* FlightTracker.tracking_task: 0 is None, else a task
    tasks,              \* the polling tasks created so far, by state
    taskError,          \* an exception has left a polling task's coroutine
    cpc,                \* position of the thread: "idle", or inside a client call
    who,                \* the operation the client call in progress belongs to
    attempt,            \* _make_request's loop variable
    data,               \* _make_request's return value
    request,            \* the request being handled or last handled
    reply,              \* the envelope handle_request returned
    op,                 \* the step taken last
    lastDispatch,       \* history: when the last outbound request was dispatched
    sent,               \* history: an outbound request has been dispatched
    nAttempts,          \* history: attempts dispatched by the current client call
    n429,               \* history: how many of them were answered 429
    lastAnswer,         \* history: when the last attempt's outcome arrived
    stopAnswered        \* history: a stop request was answered, no start accepted since

vars == <<now, last_request_time, tracked_flights, tracking_active, tracking_task,
          tasks, taskError, cpc, who, attempt, data, request, reply, op, lastDispatch, sent,
          nAttempts, n429, lastAnswer, stopAnswered>>

clientVars == <<last_request_time, attempt, data, lastDispatch, sent, nAttempts, n429,
                lastAnswer>>
trackerVars == <<tracked_flights, tracking_active, tracking_task, tasks, taskError>>

\* ------------------------------------------------------------------ values
NoData == [kind |-> "None", rows |-> <<>>]
NoRequest == [method |-> "None", id |-> "null", params_ok |-> TRUE, name |-> "None",
              uri |-> "None", args |-> "ok", icao24 |-> "a"]
NoReply == [jsonrpc |-> "none"]

\* An upstream row: `fields` positional fields; a row of 17 carries icao24 at 0
\* and last_contact at 4, the latter a number (typed) or JSON null.
Rows ==
    {[fields |-> FIELD_COUNT, icao24 |-> k, last_contact |-> c, typed |-> TRUE] :
        k \in ICAOs, c \in LastContacts}
    \cup {[fields |-> FIELD_COUNT, icao24 |-> "a", last_contact |-> 0, typed |-> FALSE]}
    \cup {[fields |-> FIELD_COUNT - 1, icao24 |-> "a", last_contact |-> 1, typed |-> TRUE]}

RECURSIVE SeqsUpTo(_, _)
SeqsUpTo(S, n) ==
    IF n = 0 THEN {<<>>}
    ELSE LET shorter == SeqsUpTo(S, n - 1)
         IN shorter \cup {Append(s, x) : s \in {t \in shorter : Len(t) = n - 1}, x \in S}

\* What response.json() can yield on a 200.
Payloads ==
    {[kind |-> k, rows |-> <<>>] : k \in {"falsy", "no_states_key", "null_states"}}
    \cup {[kind |-> "rows", rows |-> r] : r \in SeqsUpTo(Rows, MaxBatch)}

\* ------------------------------------------------------------------ client
\* _make_request, lines 76-80: the clock after the rate-limit wait.
PaceTime ==
    IF now - last_request_time < MIN_REQUEST_INTERVAL
    THEN now + (MIN_REQUEST_INTERVAL - (now - last_request_time))
    ELSE now

\* A wait that leaves out the attempt index; C19 tells the two apart.
BackoffConstant(a) == MIN_REQUEST_INTERVAL

\* The wait before the next attempt, lines 92 and 101.
Backoff(a) == MIN_REQUEST_INTERVAL * (a + 1)

\* A failure handler that retries after the last pass as well; C17 tells the
\* two apart.
RetryAfterEveryException(a) == a < MAX_RETRIES

\* Whether a transport failure on attempt a is followed by another attempt, line 100.
RetryAfterException(a) == a < MAX_RETRIES - 1

\* A loop of one pass more than range(MAX_RETRIES) has; C3 tells the two apart.
LoopContinuesOnePassMore(a) == a < MAX_RETRIES

\* Whether the for loop of line 82 has another pass after attempt a.
LoopContinues(a) == a + 1 < MAX_RETRIES

\* The timestamp kept after a response came back at time t, line 86.
StampAfterResponse(t) == t

\* The timestamp kept after session.get raised at time t: line 86 is skipped.
StampAfterException(t) == last_request_time

\* Entry of _make_request on behalf of operation w, before clock value
\* horizon: the rate-limit wait, then the first pass of the loop is next.
BeginCall(w, horizon) ==
    /\ now < horizon
    /\ cpc' = "send"
    /\ who' = w
    /\ attempt' = 0
    /\ nAttempts' = 0
    /\ n429' = 0
    /\ data' = NoData
    /\ now' = PaceTime
    /\ UNCHANGED <<last_request_time, lastDispatch, sent, lastAnswer>>

\* One pass of the loop dispatches a request at the current time, line 85;
\* session.get comes back after d time units with the outcome named.
Dispatch(outcome, d) ==
    /\ cpc = "send"
    /\ lastDispatch' = now
    /\ sent' = TRUE
    /\ nAttempts' = nAttempts + 1
    /\ lastAnswer' = now + d
    /\ op' = outcome
    /\ UNCHANGED <<trackerVars, who, request, reply, stopAnswered>>

\* Status 200 after d time units: the payload is returned, lines 85-89.
Send200(d, payload) ==
    /\ Dispatch("status_200", d)
    /\ UNCHANGED n429
    /\ now' = now + d
    /\ last_request_time' = StampAfterResponse(now + d)
    /\ data' = payload
    /\ cpc' = "return"
    /\ UNCHANGED attempt

\* Status 429 after d time units: wait, then the next pass if there is one,
\* lines 90-93 and 105.
Send429(d) ==
    /\ Dispatch("status_429", d)
    /\ n429' = n429 + 1
    /\ now' = now + d + Backoff(attempt)
    /\ last_request_time' = StampAfterResponse(now + d)
    /\ data' = NoData
    /\ attempt' = IF LoopContinues(attempt) THEN attempt + 1 ELSE attempt
    /\ cpc' = IF LoopContinues(attempt) THEN "send" ELSE "return"

\* Any other status handled the way a 429 is, wait and next pass; C18 tells the
\* two apart.
SendOtherRetried(d) ==
    /\ Dispatch("status_other", d)
    /\ UNCHANGED n429
    /\ now' = now + d + Backoff(attempt)
    /\ last_request_time' = StampAfterResponse(now + d)
    /\ data' = NoData
    /\ attempt' = IF LoopContinues(attempt) THEN attempt + 1 ELSE attempt
    /\ cpc' = IF LoopContinues(attempt) THEN "send" ELSE "return"

\* Any other status: no data at once, lines 94-96.
SendOther(d) ==
    /\ Dispatch("status_other", d)
    /\ UNCHANGED n429
    /\ now' = now + d
    /\ last_request_time' = StampAfterResponse(now + d)
    /\ data' = NoData
    /\ cpc' = "return"
    /\ UNCHANGED attempt

\* session.get raised RequestException after d time units, lines 98-103.
SendException(d) ==
    /\ Dispatch("exception", d)
    /\ UNCHANGED n429
    /\ last_request_time' = StampAfterException(now + d)
    /\ data' = NoData
    /\ IF RetryAfterException(attempt)
       THEN /\ now' = now + d + Backoff(attempt)
            /\ attempt' = attempt + 1
            /\ cpc' = "send"
       ELSE /\ now' = now + d
            /\ cpc' = "return"
            /\ UNCHANGED attempt

\* get_states, lines 125-150: a row decodes when all of state[0..16] exist.
Decodes(row) == row.fields >= FIELD_COUNT

FlightOf(row) ==
    [icao24 |-> row.icao24, last_contact |-> row.last_contact, typed |-> row.typed]

RECURSIVE ParseRows(_)
ParseRows(rows) ==
    IF rows = <<>> THEN <<>>
    ELSE IF Decodes(Head(rows))
         THEN <<FlightOf(Head(rows))>> \o ParseRows(Tail(rows))
         ELSE ParseRows(Tail(rows))

\* get_states raises when data['states'] is not iterable (line 126, outside the try).
GetStatesRaises(d) == d.kind = "null_states"

\* get_states' return value when it does not raise, lines 122-152.
GetStates(d) == IF d.kind = "rows" THEN ParseRows(d.rows) ELSE <<>>

\* ------------------------------------------------------------------ tracker
EmptyCache == [k \in {} |-> FlightOf(CHOOSE r \in Rows : TRUE)]

\* self.tracked_flights[k] = f
Put(cache, k, f) == [x \in DOMAIN cache \cup {k} |-> IF x = k THEN f ELSE cache[x]]

\* start_tracking, lines 194-195.
RECURSIVE Upsert(_, _)
Upsert(cache, flights) ==
    IF flights = <<>> THEN cache
    ELSE Upsert(Put(cache, Head(flights).icao24, Head(flights)), Tail(flights))

\* A sweep that also drops the entries exactly FLIGHT_EXPIRY_TIME old; C6 tells
\* the two apart.
ExpiredAtBoundary(f, t) == t - f.last_contact >= FLIGHT_EXPIRY_TIME

\* The condition of line 202 at clock value t.
Expired(f, t) == t - f.last_contact > FLIGHT_EXPIRY_TIME

\* Line 202 raises TypeError on a last_contact that is not a number.
SweepRaises(cache) == \E k \in DOMAIN cache : ~cache[k].typed

\* Lines 199-206.
Sweep(cache, t) ==
    LET to_remove == {k \in DOMAIN cache : Expired(cache[k], t)}
    IN [k \in DOMAIN cache \ to_remove |-> cache[k]]

\* A capacity test that lets an iteration run on a full cache; C7 tells the two
\* apart.
OverCapacity(cache) == Cardinality(DOMAIN cache) > MAX_TRACKED_FLIGHTS

\* The condition of line 188.
AtCapacity(cache) == Cardinality(DOMAIN cache) >= MAX_TRACKED_FLIGHTS

\* --------------------------------------------------------------- dispatcher
TOOLS == {"get_flights_by_area", "get_flight_by_icao", "get_flights_by_country",
          "get_all_flights", "search_flights", "start_continuous_tracking",
          "stop_tracking"}
NO_ARG_TOOLS == {"get_all_flights", "stop_tracking"}
FETCH_TOOLS == {"get_flights_by_area", "get_flights_by_country", "search_flights"}
RESOURCES == {"flight://current", "flight://stats"}
METHODS == {"initialize", "tools/list", "tools/call", "resources/list", "resources/read"}

Req(m, i, p, n, u, a, k) ==
    [method |-> m, id |-> i, params_ok |-> p, name |-> n, uri |-> u, args |-> a,
     icao24 |-> k]

\* The request envelopes handed to handle_request.  params_ok: params is an
\* object (or missing); name and uri are "None" when params lacks them; args is
\* the shape of params.arguments: "ok", "missing" (a required key is absent),
\* "notdict" (not an object) or "mistyped" (keys present, values the handler's
\* own expressions reject).
Requests ==
    {Req(m, i, TRUE, "None", "None", "ok", "a") :
        m \in {"initialize", "tools/list", "resources/list", "unknown/method"}, i \in Ids}
    \cup {Req("resources/read", i, TRUE, "None", u, "ok", "a") :
        u \in RESOURCES \cup {"flight://other"}, i \in Ids}
    \cup {Req(m, i, FALSE, "None", "None", "ok", "a") :
        m \in {"tools/call", "resources/read"}, i \in Ids}
    \cup {Req("tools/call", i, TRUE, n, "None", "ok", "a") :
        n \in (TOOLS \ {"get_flight_by_icao"}) \cup {"unknown_tool"}, i \in Ids}
    \cup {Req("tools/call", i, TRUE, "get_flight_by_icao", "None", "ok", k) :
        k \in ICAOs, i \in Ids}
    \cup {Req("tools/call", i, TRUE, n, "None", a, "a") :
        n \in TOOLS \ NO_ARG_TOOLS, a \in {"missing", "notdict"}, i \in Ids}
    \cup {Req("tools/call", i, TRUE, n, "None", "mistyped", "a") :
        n \in {"start_continuous_tracking", "search_flights"}, i \in Ids}

Message(text, about) == [text |-> text, about |-> about]

\* error_response called without its request_id, which then defaults to None;
\* C10 tells the two apart.
ErrorResponseDefaultId(message, request_id) ==
    [jsonrpc |-> "2.0", id |-> "null",
     error |-> [code |-> ERROR_CODE, message |-> message]]

\* error_response, lines 321-327.
ErrorResponse(message, request_id) ==
    [jsonrpc |-> "2.0", id |-> request_id,
     error |-> [code |-> ERROR_CODE, message |-> message]]

\* The success envelope built by initialize, list_tools, list_resources and
\* read_resource.
SuccessResponse(result, request_id) ==
    [jsonrpc |-> "2.0", id |-> request_id, result |-> result]

\* call_tool's success envelope, lines 170-178.
ToolResponse(result, request_id) ==
    SuccessResponse([kind |-> "content", text |-> result], request_id)

\* Handlers that read their arguments with args.get and never raise on them;
\* C12 tells the two apart.
ArgsNeverFail(req) == "none"

\* The exception a tool handler raises on its arguments before doing anything
\* else ("none": it does not): args['key'] on a missing key or a non-object,
\* latitude - radius (line 260) and .lower() (line 239) on a value of the wrong
\* type.
ArgsFailure(req) ==
    IF req.name \in NO_ARG_TOOLS THEN "none"
    ELSE CASE req.args = "missing" -> "KeyError"
           [] req.args = "notdict" -> "TypeError"
           [] req.args = "mistyped" ->
                IF req.name = "start_continuous_tracking" THEN "TypeError"
                ELSE IF req.name = "search_flights" THEN "AttributeError"
                ELSE "none"
           [] OTHER -> "none"

\* The envelope for an exception caught by call_tool (line 180) or by
\* handle_request (line 50).
ExceptionResponse(exc, req) == ErrorResponse(Message(exc, "exception"), req.id)

\* Handlers that run on a thread of their own, or an iteration that awaits
\* inside its loops: a callback may start in the middle of an upsert or a sweep.
\* C21 tells the two apart.
ThreadFreeOrIterating == cpc \in {"idle", "upsert", "sweep"}

\* The event loop can start a callback (a request handler, a task's step): the
\* thread is not inside one.  handle_request, the client and lines 192-206 of
\* the poll iteration hold no await that suspends, and both transports handle
\* one request at a time on the thread that runs the polling task.
ThreadFree == cpc = "idle"

\* A handler step that answers req with envelope env and touches neither the
\* client nor the clock.
Answer(req, env) ==
    /\ ThreadFree
    /\ request' = req
    /\ reply' = env
    /\ op' = "reply"
    /\ UNCHANGED <<now, clientVars, cpc, who>>

IsToolCall(req, n) ==
    /\ req.method = "tools/call"
    /\ req.params_ok
    /\ req.name = n

\* handle_request, lines 37-38.
Initialize(req) ==
    /\ req.method = "initialize"
    /\ Answer(req, SuccessResponse([kind |-> "initialize"], req.id))
    /\ UNCHANGED <<trackerVars, stopAnswered>>

\* lines 39-40 and 72-145.
ListTools(req) ==
    /\ req.method = "tools/list"
    /\ Answer(req, SuccessResponse([kind |-> "tools", tools |-> TOOLS], req.id))
    /\ UNCHANGED <<trackerVars, stopAnswered>>

\* lines 43-44 and 284-294.
ListResources(req) ==
    /\ req.method = "resources/list"
    /\ Answer(req, SuccessResponse([kind |-> "resources", resources |-> RESOURCES],
                                   req.id))
    /\ UNCHANGED <<trackerVars, stopAnswered>>

\* lines 47-48.
UnknownMethod(req) ==
    /\ req.method \notin METHODS
    /\ Answer(req, ErrorResponse(Message("Unknown method", req.method), req.id))
    /\ UNCHANGED <<trackerVars, stopAnswered>>

\* params.get raises AttributeError in call_tool (line 149) or read_resource
\* (line 298); handle_request catches it, lines 50-52.
ParamsNotObject(req) ==
    /\ req.method \in {"tools/call", "resources/read"}
    /\ ~req.params_ok
    /\ Answer(req, ExceptionResponse("AttributeError", req))
    /\ UNCHANGED <<trackerVars, stopAnswered>>

\* A call_tool whose last branch does not return, so that an unknown name gets
\* the success envelope of lines 170-178; C11 tells the two apart.
UnknownToolAnswered(req) ==
    /\ req.method = "tools/call"
    /\ req.params_ok
    /\ req.name \notin TOOLS
    /\ Answer(req, ToolResponse([status |-> "None"], req.id))
    /\ UNCHANGED <<trackerVars, stopAnswered>>

\* call_tool, lines 167-168.
UnknownTool(req) ==
    /\ req.method = "tools/call"
    /\ req.params_ok
    /\ req.name \notin TOOLS
    /\ Answer(req, ErrorResponse(Message("Unknown tool", req.name), req.id))
    /\ UNCHANGED <<trackerVars, stopAnswered>>

\* A tool handler raises on its arguments; call_tool catches it, lines 180-182.
ArgsRejected(req) ==
    /\ req.method = "tools/call"
    /\ req.params_ok
    /\ req.name \in TOOLS
    /\ ArgsFailure(req) # "none"
    /\ Answer(req, ExceptionResponse(ArgsFailure(req), req))
    /\ UNCHANGED <<trackerVars, stopAnswered>>

\* read_resource, lines 300-301 and 311-319; get_current_flights, lines 221-223.
ReadCurrent(req) ==
    /\ req.method = "resources/read"
    /\ req.params_ok
    /\ req.uri = "flight://current"
    /\ Answer(req, SuccessResponse([kind |-> "contents", uri |-> req.uri,
                                    flights |-> tracked_flights], req.id))
    /\ UNCHANGED <<trackerVars, stopAnswered>>

\* Statistics that report whether a polling task is live instead of the flag;
\* C16 tells the two apart.
ReadStatsOfTasks(req) ==
    /\ req.method = "resources/read"
    /\ req.params_ok
    /\ req.uri = "flight://stats"
    /\ Answer(req, SuccessResponse(
            [kind |-> "contents", uri |-> req.uri,
             total_flights |-> Cardinality(DOMAIN tracked_flights),
             last_update |-> last_request_time,
             tracking_active |-> \E t \in DOMAIN tasks : tasks[t] # "ended"], req.id))
    /\ UNCHANGED <<trackerVars, stopAnswered>>

\* read_resource, lines 302-307 and 311-319.
ReadStats(req) ==
    /\ req.method = "resources/read"
    /\ req.params_ok
    /\ req.uri = "flight://stats"
    /\ Answer(req, SuccessResponse(
            [kind |-> "contents", uri |-> req.uri,
             total_flights |-> Cardinality(DOMAIN tracked_flights),
             last_update |-> last_request_time,
             tracking_active |-> tracking_active], req.id))
    /\ UNCHANGED <<trackerVars, stopAnswered>>

\* read_resource, lines 308-309.
UnknownResource(req) ==
    /\ req.method = "resources/read"
    /\ req.params_ok
    /\ req.uri \notin RESOURCES
    /\ Answer(req, ErrorResponse(Message("Unknown resource", req.uri), req.id))
    /\ UNCHANGED <<trackerVars, stopAnswered>>

\* get_all_flights, lines 227-235.
GetAllFlights(req) ==
    /\ IsToolCall(req, "get_all_flights")
    /\ Answer(req, ToolResponse([flights |-> tracked_flights,
                                 count |-> Cardinality(DOMAIN tracked_flights),
                                 timestamp |-> last_request_time], req.id))
    /\ UNCHANGED <<trackerVars, stopAnswered>>

\* task.cancel(): a task that has not run yet never runs; a task that is done
\* is left as it is.
Cancel(ts, t) == IF ts[t] = "pending" THEN [ts EXCEPT ![t] = "ended"] ELSE ts

\* The check of line 265.
AlreadyRunning == tracking_active

\* A stop handler that looks at the task handle instead of the flag; C13 tells
\* the two apart.
NoTaskHandle == tracking_task = 0

\* The check of line 278.
NotRunning == ~tracking_active

\* start_continuous_tracking, lines 265-266.
StartAlreadyRunning(req) ==
    /\ IsToolCall(req, "start_continuous_tracking")
    /\ ArgsFailure(req) = "none"
    /\ AlreadyRunning
    /\ Answer(req, ToolResponse([status |-> "already_running"], req.id))
    /\ UNCHANGED <<trackerVars, stopAnswered>>

\* start_continuous_tracking, lines 268-274: the task is created, not run.
StartAccepted(req) ==
    /\ IsToolCall(req, "start_continuous_tracking")
    /\ ArgsFailure(req) = "none"
    /\ ~AlreadyRunning
    /\ Len(tasks) < MaxTasks
    /\ Answer(req, ToolResponse([status |-> "started"], req.id))
    /\ tasks' = Append(tasks, "pending")
    /\ tracking_task' = Len(tasks) + 1
    /\ stopAnswered' = FALSE
    /\ UNCHANGED <<tracked_flights, tracking_active, taskError>>

\* MCPServer.stop_tracking, lines 278-279.
StopNotRunning(req) ==
    /\ IsToolCall(req, "stop_tracking")
    /\ NotRunning
    /\ Answer(req, ToolResponse([status |-> "not_running"], req.id))
    /\ stopAnswered' = TRUE
    /\ UNCHANGED trackerVars

\* MCPServer.stop_tracking, lines 281-282; FlightTracker.stop_tracking, 214-219.
StopTracking(req) ==
    /\ IsToolCall(req, "stop_tracking")
    /\ ~NotRunning
    /\ Answer(req, ToolResponse([status |-> "stopped"], req.id))
    /\ tracking_active' = FALSE
    /\ tasks' = IF tracking_task # 0 THEN Cancel(tasks, tracking_task) ELSE tasks
    /\ tracking_task' = 0
    /\ stopAnswered' = TRUE
    /\ UNCHANGED <<tracked_flights, taskError>>

\* get_flight_by_icao and get_flight_info, lines 227-228: a cache hit.
GetFlightHit(req) ==
    /\ IsToolCall(req, "get_flight_by_icao")
    /\ ArgsFailure(req) = "none"
    /\ req.icao24 \in DOMAIN tracked_flights
    /\ Answer(req, ToolResponse([found |-> TRUE,
                                 flight |-> tracked_flights[req.icao24]], req.id))
    /\ UNCHANGED <<trackerVars, stopAnswered>>

\* A handler step that enters the client on behalf of tool w.
EnterClient(req, w, horizon) ==
    /\ ThreadFree
    /\ BeginCall(w, horizon)
    /\ request' = req
    /\ reply' = NoReply
    /\ op' = "call"
    /\ UNCHANGED <<trackerVars, stopAnswered>>

\* get_flight_info, line 230: a miss starts the client lookup.
GetFlightMiss(req) ==
    /\ IsToolCall(req, "get_flight_by_icao")
    /\ ArgsFailure(req) = "none"
    /\ req.icao24 \notin DOMAIN tracked_flights
    /\ EnterClient(req, "get_flight_by_icao", MaxTime)

\* get_flights_by_area (191), get_flights_by_country (219), search_flights (240).
FetchTool(req, horizon) ==
    /\ req.method = "tools/call"
    /\ req.params_ok
    /\ req.name \in FETCH_TOOLS
    /\ ArgsFailure(req) = "none"
    /\ EnterClient(req, req.name, horizon)

\* The handler step after the client call returned.
\* Leaving the client call: its locals are gone.
EndCall ==
    /\ cpc = "return"
    /\ cpc' = "idle"
    /\ who' = "none"
    /\ attempt' = 0
    /\ nAttempts' = 0
    /\ n429' = 0
    /\ data' = NoData
    /\ UNCHANGED <<now, last_request_time, lastDispatch, sent, lastAnswer>>

Resume(env) ==
    /\ EndCall
    /\ reply' = env
    /\ op' = "reply"
    /\ UNCHANGED <<request, stopAnswered>>

\* A lookup that returns what it found without caching it; C9 tells the two
\* apart.
ReadAround(cache, k, flights) == cache

\* The cache after get_flight_info's lookup returned flights, lines 231-232.
ReadThrough(cache, k, flights) ==
    IF flights # <<>> THEN Put(cache, k, Head(flights)) ELSE cache

\* get_flight_by_icao (163), get_flight_info (231-235), the handler (211-214).
GetFlightReturn ==
    /\ who = "get_flight_by_icao"
    /\ IF GetStatesRaises(data)
       THEN /\ Resume(ExceptionResponse("TypeError", request))
            /\ UNCHANGED trackerVars
       ELSE LET flights == GetStates(data)
            IN /\ tracked_flights' = ReadThrough(tracked_flights, request.icao24, flights)
               /\ Resume(ToolResponse(
                     IF flights # <<>>
                     THEN [found |-> TRUE, flight |-> Head(flights)]
                     ELSE [found |-> FALSE, message |-> "not found"], request.id))
               /\ UNCHANGED <<tracking_active, tracking_task, tasks, taskError>>

\* Fetching tools that keep what they fetched in the cache; C20 tells the two
\* apart.
FetchReturnCached ==
    /\ who \in FETCH_TOOLS
    /\ IF GetStatesRaises(data)
       THEN /\ Resume(ExceptionResponse("TypeError", request))
            /\ UNCHANGED trackerVars
       ELSE LET flights == GetStates(data)
            IN /\ tracked_flights' = Upsert(tracked_flights, flights)
               /\ Resume(ToolResponse(
                     IF who = "get_flights_by_area"
                     THEN [flights |-> flights, count |-> Len(flights)]
                     ELSE [filtered |-> Len(flights)], request.id))
               /\ UNCHANGED <<tracking_active, tracking_task, tasks, taskError>>

\* The three fetching tools after the client call returned.  origin_country and
\* callsign are outside the flight abstraction: the filtered tools report how
\* many flights the filter ran over.
FetchReturn ==
    /\ who \in FETCH_TOOLS
    /\ IF GetStatesRaises(data)
       THEN Resume(ExceptionResponse("TypeError", request))
       ELSE LET flights == GetStates(data)
            IN Resume(ToolResponse(
                   IF who = "get_flights_by_area"
                   THEN [flights |-> flights, count |-> Len(flights)]
                   ELSE [filtered |-> Len(flights)], request.id))
    /\ UNCHANGED trackerVars

\* ------------------------------------------------------------- polling task
Running == {t \in DOMAIN tasks : tasks[t] = "running"}
Live == {t \in DOMAIN tasks : tasks[t] \in {"pending", "running"}}

\* A step of the event loop that is not a request handler.
LoopStep(label) ==
    /\ request' = NoRequest
    /\ reply' = NoReply
    /\ op' = label
    /\ UNCHANGED stopAnswered

\* The first step of a polling task, start_tracking lines 183-192: the flag is
\* set, then either the loop ends at the capacity check or the fetch begins.
\* Tasks run in the order they were created.
TaskRun(t) ==
    /\ ThreadFree
    /\ tasks[t] = "pending"
    /\ \A u \in DOMAIN tasks : u < t => tasks[u] # "pending"
    /\ tracking_active' = TRUE
    /\ IF AtCapacity(tracked_flights)
       THEN /\ tasks' = [tasks EXCEPT ![t] = "ended"]
            /\ LoopStep("poll_break")
            /\ UNCHANGED <<now, clientVars, cpc, who>>
       ELSE /\ tasks' = [tasks EXCEPT ![t] = "running"]
            /\ BeginCall("poll", MaxTime)
            /\ LoopStep("poll_fetch")
    /\ UNCHANGED <<tracked_flights, tracking_task, taskError>>

\* The cache after lines 194-206 when neither the fetch nor the sweep raises.
PollCache(cache, d, t) == Sweep(Upsert(cache, GetStates(d)), t)

\* The rest of the iteration, lines 192-212.  flight_data_service.py never
\* imports asyncio (lines 1-8): `await asyncio.sleep(interval)` raises NameError
\* at line 208, the handler of line 210 catches it, and line 212 raises it again
\* out of the coroutine.  So the task ends with that exception after its first
\* iteration, whether the iteration got through the sweep ("poll_swept"), the
\* sweep raised on a last_contact that is no number, or get_states raised.
PollReturn ==
    /\ EndCall
    /\ who = "poll"
    /\ \E t \in Running :
        tasks' = [tasks EXCEPT ![t] = "ended"]
    /\ taskError' = TRUE
    /\ IF GetStatesRaises(data)
       THEN /\ UNCHANGED tracked_flights
            /\ LoopStep("poll_failed")
       ELSE IF SweepRaises(Upsert(tracked_flights, GetStates(data)))
       THEN /\ tracked_flights' = Upsert(tracked_flights, GetStates(data))
            /\ LoopStep("poll_failed")
       ELSE /\ tracked_flights' = PollCache(tracked_flights, data, now)
            /\ LoopStep("poll_swept")
    /\ UNCHANGED <<tracking_active, tracking_task>>

\* The same iteration statement by statement, for the claims about what can
\* come between its statements.  The end of an iteration, lines 208-212: the
\* NameError leaves the coroutine, the call's locals are gone.
EndIteration(label) ==
    /\ who = "poll"
    /\ cpc' = "idle"
    /\ who' = "none"
    /\ attempt' = 0
    /\ nAttempts' = 0
    /\ n429' = 0
    /\ data' = NoData
    /\ \E t \in Running :
        tasks' = [tasks EXCEPT ![t] = "ended"]
    /\ taskError' = TRUE
    /\ LoopStep(label)
    /\ UNCHANGED <<now, last_request_time, lastDispatch, sent, lastAnswer,
                   tracking_active, tracking_task>>

\* A statement inside the iteration: the locals and the tracker's other fields
\* stay.
InIteration(label) ==
    /\ who = "poll"
    /\ LoopStep(label)
    /\ UNCHANGED <<now, last_request_time, lastDispatch, sent, lastAnswer, attempt,
                   nAttempts, n429, who, tracking_active, tracking_task, tasks,
                   taskError>>

\* Line 192: get_states has parsed the payload into `flights`, kept in data
\* from here on, or has raised.
PollParsed ==
    /\ cpc = "return"
    /\ IF GetStatesRaises(data)
       THEN /\ EndIteration("poll_failed")
            /\ UNCHANGED tracked_flights
       ELSE /\ InIteration("poll_parsed")
            /\ cpc' = "upsert"
            /\ data' = [kind |-> "flights", rows |-> GetStates(data)]
            /\ UNCHANGED tracked_flights

\* Lines 194-195, one pass.
PollUpsertOne ==
    /\ cpc = "upsert"
    /\ data.rows # <<>>
    /\ InIteration("poll_upsert")
    /\ tracked_flights' = Put(tracked_flights, Head(data.rows).icao24, Head(data.rows))
    /\ data' = [data EXCEPT !.rows = Tail(@)]
    /\ UNCHANGED cpc

\* Lines 199-203: the clock is read and the cache is scanned for what to
\* remove, which raises on a last_contact that is no number.
PollScan ==
    /\ cpc = "upsert"
    /\ data.rows = <<>>
    /\ UNCHANGED tracked_flights
    /\ IF SweepRaises(tracked_flights)
       THEN EndIteration("poll_failed")
       ELSE /\ InIteration("poll_scan")
            /\ cpc' = "sweep"
            /\ UNCHANGED data

\* Lines 205-206, one pass.  The clock and the entries are as the scan saw
\* them, so what is left of to_remove is what is still expired; the order of
\* to_remove, the dict's insertion order, is not kept by the model.
PollDeleteOne ==
    /\ cpc = "sweep"
    /\ \E k \in DOMAIN tracked_flights :
        /\ Expired(tracked_flights[k], now)
        /\ tracked_flights' = [x \in DOMAIN tracked_flights \ {k} |-> tracked_flights[x]]
    /\ InIteration("poll_delete")
    /\ UNCHANGED <<cpc, data>>

\* Line 208 after the last deletion.
PollSleep ==
    /\ cpc = "sweep"
    /\ \A k \in DOMAIN tracked_flights : ~Expired(tracked_flights[k], now)
    /\ EndIteration("poll_swept")
    /\ UNCHANGED tracked_flights

\* Time passes while the event loop waits for input.
Tick ==
    /\ cpc = "idle"
    /\ now < MaxTime
    /\ now' = now + 1
    /\ LoopStep("tick")
    /\ UNCHANGED <<clientVars, trackerVars, cpc, who>>

\* ------------------------------------------------------------ specification
\* After construction (OpenSkyAPIClient.__init__, FlightTracker.__init__); the
\* epoch clock is past the first MIN_REQUEST_INTERVAL.
Init ==
    /\ now = MIN_REQUEST_INTERVAL
    /\ last_request_time = 0
    /\ tracked_flights = EmptyCache
    /\ tracking_active = FALSE
    /\ tracking_task = 0
    /\ tasks = <<>>
    /\ taskError = FALSE
    /\ cpc = "idle"
    /\ who = "none"
    /\ attempt = 0
    /\ data = NoData
    /\ request = NoRequest
    /\ reply = NoReply
    /\ op = "init"
    /\ lastDispatch = 0
    /\ sent = FALSE
    /\ nAttempts = 0
    /\ n429 = 0
    /\ lastAnswer = 0
    /\ stopAnswered = FALSE

\* The requests that reach the tracker, with well-formed arguments.
TrackerRequests ==
    {r \in Requests :
        /\ r.id = "id-1"
        /\ r.method = "tools/call"
        /\ r.params_ok
        /\ r.args = "ok"
        /\ r.name \in {"start_continuous_tracking", "stop_tracking",
                       "get_flight_by_icao"}}

TrackerHandlers(R) ==
    \/ \E req \in R : StartAlreadyRunning(req)
    \/ \E req \in R : StartAccepted(req)
    \/ \E req \in R : StopNotRunning(req)
    \/ \E req \in R : StopTracking(req)
    \/ \E req \in R : GetFlightHit(req)
    \/ \E req \in R : GetFlightMiss(req)

FetchHandlers(R, horizon) ==
    \/ \E req \in R : FetchTool(req, horizon)
    \/ FetchReturn

ReadOnlyHandlers(R) ==
    \/ \E req \in R : Initialize(req)
    \/ \E req \in R : ListTools(req)
    \/ \E req \in R : ListResources(req)
    \/ \E req \in R : UnknownMethod(req)
    \/ \E req \in R : ParamsNotObject(req)
    \/ \E req \in R : UnknownTool(req)
    \/ \E req \in R : ArgsRejected(req)
    \/ \E req \in R : ReadCurrent(req)
    \/ \E req \in R : ReadStats(req)
    \/ \E req \in R : UnknownResource(req)
    \/ \E req \in R : GetAllFlights(req)

\* The upstream answers an attempt for good: a payload, or a status that is
\* neither 200 nor 429.
Responses(L, P) ==
    \/ \E d \in L, payload \in P : Send200(d, payload)
    \/ \E d \in L : SendOther(d)

\* The upstream makes the client retry.
Retries(L) ==
    \/ \E d \in L : Send429(d)
    \/ \E d \in L : SendException(d)

Continuations ==
    \/ GetFlightReturn
    \/ \E t \in DOMAIN tasks : TaskRun(t)
    \/ PollReturn

\* The tracker, its polling tasks and the cache, over every payload of up to
\* MaxBatch rows.  Left out: the handlers that change nothing of the tracker,
\* and the client's retries, which only make a call take longer.
Next ==
    \/ TrackerHandlers(TrackerRequests)
    \/ Responses({0}, Payloads)
    \/ Continuations
    \/ Tick

Spec == Init /\ [][Next]_vars

\* The client alone, driven through search_flights: every outcome of every
\* attempt, every latency, idle time between calls.
ClientRequests ==
    {r \in Requests : r.id = "id-1" /\ r.name = "search_flights" /\ r.args = "ok"}
ClientPayloads == {[kind |-> "rows", rows |-> <<>>]}

NextClient ==
    \/ FetchHandlers(ClientRequests, MaxClientTime)
    \/ Responses(0..MaxLatency, ClientPayloads)
    \/ Retries(0..MaxLatency)
    \/ Tick

SpecClient == Init /\ [][NextClient]_vars

\* The dispatcher: every request envelope, against a tracker whose upstream
\* answers at once with one of a few payloads.
DispatchPayloads ==
    {p \in Payloads :
        \/ p.kind = "null_states"
        \/ p.kind = "rows" /\ p.rows = <<>>
        \/ p.kind = "rows" /\ Len(p.rows) = 1 /\ Decodes(p.rows[1])
                           /\ p.rows[1].typed /\ p.rows[1].icao24 = "a"
                           /\ p.rows[1].last_contact = 0}

NextDispatch ==
    \/ ReadOnlyHandlers(Requests)
    \/ TrackerHandlers(Requests)
    \/ FetchHandlers(Requests, MaxTime)
    \/ Responses({0}, DispatchPayloads)
    \/ Continuations

SpecDispatch == Init /\ [][NextDispatch]_vars

\* The tracker with the poll iteration taken statement by statement, and the
\* snapshots, over every payload of up to MaxBatch rows.
AtomicRequests ==
    TrackerRequests
    \cup {r \in Requests :
            /\ r.id = "id-1"
            /\ r.params_ok
            /\ r.args = "ok"
            /\ \/ r.method = "tools/call" /\ r.name = "get_all_flights"
               \/ r.method = "resources/read" /\ r.uri = "flight://current"}

NextAtomic ==
    \/ TrackerHandlers(AtomicRequests)
    \/ \E req \in AtomicRequests : GetAllFlights(req)
    \/ \E req \in AtomicRequests : ReadCurrent(req)
    \/ Responses({0}, Payloads)
    \/ GetFlightReturn
    \/ \E t \in DOMAIN tasks : TaskRun(t)
    \/ PollParsed
    \/ PollUpsertOne
    \/ PollScan
    \/ PollDeleteOne
    \/ PollSleep

SpecAtomic == Init /\ [][NextAtomic]_vars

\* ------------------------------------------------------------------ claims
Size(cache) == Cardinality(DOMAIN cache)

\* Everything a handler can have an effect on: the tracker, the client, the
\* clock and the thread's position.
Effects == <<trackerVars, clientVars, now, cpc, who>>

\* env is an error envelope with the fixed code and message m.
IsError(env, m) ==
    /\ "error" \in DOMAIN env
    /\ "result" \notin DOMAIN env
    /\ env.error.code = -32000
    /\ env.error.message = m

\* C1: any two consecutive outbound attempts of the client are dispatched at
\* least MIN_REQUEST_INTERVAL apart.  In a state with cpc = "send" the next
\* attempt is dispatched at the current clock value.
C1_DispatchesSpaced ==
    (cpc = "send" /\ sent) => now - lastDispatch >= MIN_REQUEST_INTERVAL

\* C2: the tracked-flight cache never holds more than MAX_TRACKED_FLIGHTS
\* entries.
C2_CacheWithinCapacity == Size(tracked_flights) <= MAX_TRACKED_FLIGHTS

\* C3: a client call all of whose attempts are answered 429 makes exactly
\* MAX_RETRIES attempts, then returns no data, from which get_states yields the
\* empty sequence without raising.
C3_All429ExactlyMaxRetries ==
    /\ (cpc = "send" /\ n429 = nAttempts) => nAttempts < MAX_RETRIES
    /\ (cpc = "return" /\ nAttempts > 0 /\ n429 = nAttempts) =>
            /\ nAttempts = MAX_RETRIES
            /\ data = NoData
            /\ ~GetStatesRaises(data)
            /\ GetStates(data) = <<>>

C3_Witness == cpc = "return" /\ n429 = MAX_RETRIES /\ nAttempts = MAX_RETRIES

C6_SweepExact ==
    [][op' = "poll_swept" =>
        LET upserted == Upsert(tracked_flights, GetStates(data))
        IN /\ DOMAIN tracked_flights' =
                {k \in DOMAIN upserted :
                    now' - upserted[k].last_contact <= FLIGHT_EXPIRY_TIME}
           /\ \A k \in DOMAIN tracked_flights' : tracked_flights'[k] = upserted[k]
    ]_vars

\* A sweep has run and kept an entry that is exactly FLIGHT_EXPIRY_TIME old.
C6_Witness ==
    /\ op = "poll_swept"
    /\ \E k \in DOMAIN tracked_flights :
        now - tracked_flights[k].last_contact = FLIGHT_EXPIRY_TIME

\* C7: a polling task whose iteration begins with the cache at or over
\* MAX_TRACKED_FLIGHTS ends there: no client call is entered, nothing is
\* dispatched, the cache is untouched; and a loop that has ended never runs again.
C7_CapacityEndsLoop ==
    [][\A t \in DOMAIN tasks :
        /\ (/\ tasks[t] = "pending"
            /\ tasks'[t] # "pending"
            /\ op' # "reply"
            /\ Size(tracked_flights) >= MAX_TRACKED_FLIGHTS)
           => /\ tasks'[t] = "ended"
              /\ op' = "poll_break"
              /\ cpc' = "idle"
              /\ tracked_flights' = tracked_flights
              /\ <<lastDispatch, sent, last_request_time>>' =
                    <<lastDispatch, sent, last_request_time>>
        /\ tasks[t] = "ended" => tasks'[t] = "ended"
    ]_vars

C7_Witness ==
    /\ op = "poll_break"
    /\ \E t \in DOMAIN tasks : tasks[t] = "ended"
    /\ Size(tracked_flights) >= MAX_TRACKED_FLIGHTS

\* C8: an iteration, completed or failed, never ends the polling loop: no
\* error leaves the polling task.
C8_IterationNeverEndsLoop == ~taskError

\* C9: get_flight_info on a cached key answers with the cached entry and
\* enters no client call; on a key not cached it enters the client once, and
\* when the call comes back inserts the first flight under the requested key
\* and answers with it, or answers "not found" and leaves the cache alone.
C9_ReadThrough ==
    [][LET k == request'.icao24
           asked == /\ cpc = "idle"
                    /\ op' \in {"reply", "call"}
                    /\ request'.name = "get_flight_by_icao"
           back == /\ cpc = "return"
                   /\ who = "get_flight_by_icao"
                   /\ ~GetStatesRaises(data)
           flights == GetStates(data)
       IN /\ (asked /\ k \in DOMAIN tracked_flights) =>
                /\ op' = "reply"
                /\ cpc' = "idle"
                /\ "result" \in DOMAIN reply'
                /\ reply'.result.text = [found |-> TRUE, flight |-> tracked_flights[k]]
                /\ tracked_flights' = tracked_flights
                /\ <<lastDispatch, sent>>' = <<lastDispatch, sent>>
          /\ (asked /\ k \notin DOMAIN tracked_flights) =>
                /\ op' = "call"
                /\ cpc' = "send"
                /\ who' = "get_flight_by_icao"
                /\ tracked_flights' = tracked_flights
          /\ (back /\ flights # <<>>) =>
                /\ cpc' = "idle"
                /\ DOMAIN tracked_flights' = DOMAIN tracked_flights \cup {k}
                /\ tracked_flights'[k] = flights[1]
                /\ \A x \in DOMAIN tracked_flights \ {k} :
                        tracked_flights'[x] = tracked_flights[x]
                /\ "result" \in DOMAIN reply'
                /\ reply'.result.text = [found |-> TRUE, flight |-> flights[1]]
          /\ (back /\ flights = <<>>) =>
                /\ cpc' = "idle"
                /\ tracked_flights' = tracked_flights
                /\ "result" \in DOMAIN reply'
                /\ ~reply'.result.text.found
    ]_vars

\* A miss has been answered with the flight the client found, now cached under
\* the requested key although the upstream reported another icao24.
C9_Witness ==
    /\ op = "reply"
    /\ request.name = "get_flight_by_icao"
    /\ "result" \in DOMAIN reply
    /\ reply.result.text.found
    /\ request.icao24 \in DOMAIN tracked_flights
    /\ tracked_flights[request.icao24].icao24 # request.icao24

\* C10: handle_request answers every request envelope with an envelope of
\* jsonrpc "2.0" and the request's id that has exactly one of result and error,
\* an error carrying code -32000 and a message.
C10_Envelope ==
    op = "reply" =>
        /\ reply.jsonrpc = "2.0"
        /\ reply.id = request.id
        /\ ("result" \in DOMAIN reply) # ("error" \in DOMAIN reply)
        /\ "error" \in DOMAIN reply =>
                /\ reply.error.code = -32000
                /\ "message" \in DOMAIN reply.error

\* A tool call that lacks a required argument has been answered with an error.
C10_Witness ==
    /\ op = "reply"
    /\ request.id = "id-1"
    /\ request.args = "missing"
    /\ "error" \in DOMAIN reply

\* C11: a request with an unknown method, a tools/call with an unknown tool
\* name and a resources/read with an unknown uri are each answered at once with
\* an error envelope of code -32000 whose message names what was unknown, and
\* have no effect on the tracker, the client or the clock.  The same holds, with
\* the exception's text as message, when params is not an object.
C11_UnknownIsError ==
    [][(cpc = "idle" /\ op' \in {"reply", "call"}) =>
        LET r == request'
        IN /\ r.method \notin METHODS =>
                /\ op' = "reply"
                /\ IsError(reply', Message("Unknown method", r.method))
                /\ Effects' = Effects
           /\ (r.method = "tools/call" /\ r.params_ok /\ r.name \notin TOOLS) =>
                /\ op' = "reply"
                /\ IsError(reply', Message("Unknown tool", r.name))
                /\ Effects' = Effects
           /\ (r.method = "resources/read" /\ r.params_ok /\ r.uri \notin RESOURCES) =>
                /\ op' = "reply"
                /\ IsError(reply', Message("Unknown resource", r.uri))
                /\ Effects' = Effects
           /\ (r.method \in {"tools/call", "resources/read"} /\ ~r.params_ok) =>
                /\ op' = "reply"
                /\ IsError(reply', Message("AttributeError", "exception"))
                /\ Effects' = Effects
    ]_vars

\* An unknown tool was refused while flights were cached and tracking was on.
C11_Witness ==
    /\ op = "reply"
    /\ request.method = "tools/call"
    /\ request.params_ok
    /\ request.name = "unknown_tool"
    /\ "error" \in DOMAIN reply
    /\ tracked_flights # EmptyCache
    /\ tracking_active

\* C12: a tools/call for a catalogue tool that takes arguments, with a required
\* argument missing, is answered at once with an error envelope of code -32000
\* (the handler's KeyError) and has no effect: no client call is entered, no
\* polling task is created, the cache and the tracking flag are as before.
C12_MissingArgumentIsError ==
    [][(/\ cpc = "idle"
        /\ op' \in {"reply", "call"}
        /\ request'.method = "tools/call"
        /\ request'.params_ok
        /\ request'.name \in TOOLS \ NO_ARG_TOOLS
        /\ request'.args = "missing")
       => /\ op' = "reply"
          /\ IsError(reply', Message("KeyError", "exception"))
          /\ reply'.id = request'.id
          /\ Effects' = Effects
    ]_vars

\* A start_continuous_tracking without its arguments was refused, and no polling
\* task exists.
C12_Witness ==
    /\ op = "reply"
    /\ request.name = "start_continuous_tracking"
    /\ request.args = "missing"
    /\ "error" \in DOMAIN reply
    /\ tasks = <<>>
    /\ ~tracking_active

\* C13: a stop_tracking request handled while tracking is not active is answered
\* not_running in a success envelope and changes nothing; and of two
\* stop_tracking requests handled one right after the other, the second is
\* answered not_running.
C13_StopIdempotent ==
    [][(/\ cpc = "idle"
        /\ op' \in {"reply", "call"}
        /\ IsToolCall(request', "stop_tracking"))
       => /\ op' = "reply"
          /\ "result" \in DOMAIN reply'
          /\ "error" \notin DOMAIN reply'
          /\ ~tracking_active =>
                /\ reply'.result.text = [status |-> "not_running"]
                /\ Effects' = Effects
          /\ (op = "reply" /\ IsToolCall(request, "stop_tracking")) =>
                /\ reply'.result.text = [status |-> "not_running"]
                /\ Effects' = Effects
    ]_vars

\* A stop was answered not_running after an earlier stop had ended tracking
\* that a polling task had switched on.
C13_Witness ==
    /\ op = "reply"
    /\ IsToolCall(request, "stop_tracking")
    /\ "result" \in DOMAIN reply
    /\ reply.result.text = [status |-> "not_running"]
    /\ taskError
    /\ ~tracking_active
    /\ tracked_flights # EmptyCache

\* C14: when the client call has returned no data or a payload malformed at the
\* top level (falsy, without a states key, or with states null), get_states
\* raises nothing and yields the empty sequence.
C14_MalformedIsEmpty ==
    (cpc = "return" /\ data.kind # "rows") =>
        /\ ~GetStatesRaises(data)
        /\ GetStates(data) = <<>>

\* C15: get_states yields, in upstream order, exactly the records of the rows
\* that have 17 fields and a last_contact that is a number; every other row
\* yields no record.
C15_OnlyWellTypedRows ==
    (cpc = "return" /\ data.kind = "rows") =>
        LET WellFormed(row) == row.fields = FIELD_COUNT /\ row.typed
            kept == SelectSeq(data.rows, WellFormed)
        IN /\ ~GetStatesRaises(data)
           /\ GetStates(data) = [i \in 1..Len(kept) |-> FlightOf(kept[i])]

\* C16: resources/read on flight://stats is answered with a success envelope
\* whose total_flights is the number of cache entries and whose tracking_active
\* is the tracker's flag, and changes nothing; as the first request of a server
\* it reports 0 and false.
C16_StatsReportState ==
    [][(/\ cpc = "idle"
        /\ op' \in {"reply", "call"}
        /\ request'.method = "resources/read"
        /\ request'.params_ok
        /\ request'.uri = "flight://stats")
       => /\ op' = "reply"
          /\ reply'.id = request'.id
          /\ "result" \in DOMAIN reply'
          /\ "error" \notin DOMAIN reply'
          /\ reply'.result.total_flights = Size(tracked_flights)
          /\ reply'.result.tracking_active = tracking_active
          /\ Effects' = Effects
          /\ op = "init" =>
                /\ reply'.result.total_flights = 0
                /\ reply'.result.tracking_active = FALSE
    ]_vars

\* The statistics were read while a flight was cached and the flag was set,
\* although the polling task that set it had ended.
C16_Witness ==
    /\ op = "reply"
    /\ request.uri = "flight://stats"
    /\ "result" \in DOMAIN reply
    /\ reply.result.total_flights = 1
    /\ reply.result.tracking_active
    /\ Live = {}

\* C17: whatever mix of transport failures and 429 answers a client call meets,
\* every step it takes is one attempt, it makes another attempt only while
\* fewer than MAX_RETRIES were made, and when it gives up it has made exactly
\* MAX_RETRIES and returns no data, on which get_states does not raise; an
\* attempt answered 200 ends the call at once, after as many attempts as passes
\* of the loop, with the payload.
C17_AtMostMaxRetries ==
    [][cpc = "send" =>
        /\ op' \in {"status_200", "status_429", "status_other", "exception"}
        /\ nAttempts' = nAttempts + 1
        /\ nAttempts' <= MAX_RETRIES
        /\ cpc' \in {"send", "return"}
        /\ cpc' = "send" => nAttempts' < MAX_RETRIES
        /\ (op' \in {"status_429", "exception"} /\ cpc' = "return") =>
                /\ nAttempts' = MAX_RETRIES
                /\ data' = NoData
                /\ ~GetStatesRaises(data')
                /\ GetStates(data') = <<>>
        /\ op' = "status_200" =>
                /\ cpc' = "return"
                /\ nAttempts' = attempt + 1
                /\ data' \in Payloads
    ]_vars

\* A call has ended with a payload at its last attempt, after a 429 and a
\* transport failure.
C17_Witness ==
    /\ cpc = "return"
    /\ op = "status_200"
    /\ nAttempts = MAX_RETRIES
    /\ n429 = 1
    /\ data \in Payloads

\* C18: an attempt answered with a status that is neither 200 nor 429 ends the
\* call there: no further attempt, no wait after the answer arrived, no data.
C18_OtherStatusNotRetried ==
    [][op' = "status_other" =>
        /\ cpc' = "return"
        /\ now' = lastAnswer'
        /\ data' = NoData
        /\ nAttempts' = nAttempts + 1
        /\ attempt' = attempt
    ]_vars

\* The second attempt of a call was answered with such a status, and the call
\* ended with attempts to spare.
C18_Witness ==
    /\ op = "status_other"
    /\ cpc = "return"
    /\ nAttempts = 2
    /\ nAttempts < MAX_RETRIES

\* C19: inside one client call, attempt k + 1 is dispatched exactly
\* MIN_REQUEST_INTERVAL * k after the outcome of attempt k arrived, whether that
\* outcome was a 429 or a transport failure.
C19_LinearBackoff ==
    [][(op' \in {"status_429", "exception"} /\ cpc' = "send") =>
        now' - lastAnswer' = MIN_REQUEST_INTERVAL * nAttempts'
    ]_vars

\* The third attempt of a call is due, two times MIN_REQUEST_INTERVAL after a
\* transport failure that took time to show.
C19_Witness ==
    /\ op = "exception"
    /\ cpc = "send"
    /\ nAttempts = 2
    /\ lastAnswer > lastDispatch
    /\ now = lastAnswer + MIN_REQUEST_INTERVAL * 2

\* C20: the cache changes only in a poll iteration and in a get_flight_info
\* miss whose lookup found a flight; only a sweep removes an entry; and the
\* fetching tools, get_all_flights, stop_tracking, initialize, tools/list,
\* resources/list and resources/read leave the cache as it is.
C20_CacheFrame ==
    [][/\ tracked_flights' # tracked_flights =>
            \/ who = "poll" /\ op' \in {"poll_swept", "poll_failed"}
            \/ /\ cpc = "return"
               /\ who = "get_flight_by_icao"
               /\ op' = "reply"
               /\ ~GetStatesRaises(data)
               /\ GetStates(data) # <<>>
       /\ DOMAIN tracked_flights \ DOMAIN tracked_flights' # {} => op' = "poll_swept"
       /\ (/\ op' \in {"reply", "call"}
           /\ \/ request'.method \in METHODS \ {"tools/call"}
              \/ /\ request'.method = "tools/call"
                 /\ request'.name \in FETCH_TOOLS \cup {"get_all_flights", "stop_tracking"})
          => tracked_flights' = tracked_flights
    ]_vars

\* get_flights_by_area has answered with a flight, and the cache is empty.
C20_Witness ==
    /\ op = "reply"
    /\ request.name = "get_flights_by_area"
    /\ "result" \in DOMAIN reply
    /\ reply.result.text.count = 1
    /\ tracked_flights = EmptyCache

\* C22: the active flag is true exactly when a polling loop is live (a task
\* created and not yet ended).
C22_ActiveIffLive == tracking_active <=> Live # {}

\* C23: every cache key is the icao24 of the flight stored under it.
C23_KeyIsIcao ==
    \A k \in DOMAIN tracked_flights : tracked_flights[k].icao24 = k

\* C24: a client call never waits after its final attempt: when the attempt
\* that ends the call was answered 429 or failed in the transport, the call
\* returns at the moment that outcome arrived.
C24_NoWaitAfterFinalAttempt ==
    [][(op' \in {"status_429", "exception"} /\ cpc' = "return") =>
        now' = lastAnswer'
    ]_vars

\* C25: after every earlier loop has ended without an error, the first of them
\* at the capacity check, and a stop has cleared the flag, the polling task of
\* the next accepted start fetches when it first runs.
C25_RestartPolls ==
    [][\A t \in DOMAIN tasks :
        (/\ t > 1
         /\ tasks[t] = "pending"
         /\ tasks'[t] # "pending"
         /\ op' \in {"poll_break", "poll_fetch"}
         /\ ~taskError
         /\ ~tracking_active
         /\ \A u \in 1..(t - 1) : tasks[u] = "ended")
        => /\ op' = "poll_fetch"
           /\ cpc' = "send"
    ]_vars

\* C21: the upserts and the sweep of a poll iteration, a snapshot and a
\* read-through insert take effect whole with respect to each other: while an
\* iteration is between two of its cache statements only the iteration itself
\* takes a step, while a client call is under way only the call and its
\* continuation do, and a snapshot is taken with the thread free, shows the
\* whole cache and changes none of it.
C21_IterationUninterrupted ==
    [][/\ cpc \in {"upsert", "sweep"} =>
            /\ who = "poll"
            /\ op' \in {"poll_upsert", "poll_scan", "poll_delete", "poll_swept",
                        "poll_failed"}
       /\ cpc = "send" =>
            op' \in {"status_200", "status_429", "status_other", "exception"}
       /\ cpc = "return" =>
            \/ who = "poll" /\ op' \in {"poll_parsed", "poll_failed"}
            \/ who = "get_flight_by_icao" /\ op' = "reply" /\ request' = request
       /\ (/\ op' = "reply"
           /\ \/ IsToolCall(request', "get_all_flights")
              \/ request'.method = "resources/read" /\ request'.uri = "flight://current")
          => /\ cpc = "idle"
             /\ "result" \in DOMAIN reply'
             /\ IF request'.method = "tools/call"
                THEN reply'.result.text.flights = tracked_flights
                ELSE reply'.result.flights = tracked_flights
             /\ tracked_flights' = tracked_flights
    ]_vars

\* A sweep is half done: it has deleted an entry and another expired entry is
\* still in the cache.
C21_Witness ==
    /\ cpc = "sweep"
    /\ op = "poll_delete"
    /\ \E k \in DOMAIN tracked_flights : Expired(tracked_flights[k], now)

====
